---- MODULE Spec2Model ----
(***************************************************************************)
(* Training-loop orchestration of TTS/bin/train_glow_tts.py.               *)
(*                                                                         *)
(* One process per accelerator (rank 0 .. num_gpus-1) runs main(): setup,  *)
(* data_depended_init, then per epoch train -> evaluate -> save_best_model.*)
(* The processes interact only through the blocking all-reduce inside      *)
(* reduce_tensor.  Operations local to one process commute with everything *)
(* the other processes do, so each action below is one maximal run of      *)
(* local operations of one process between two blocking points; the order  *)
(* of the operations inside that run is kept in the per-process log `ops`. *)
(***************************************************************************)
EXTENDS Integers, Sequences, FiniteSets, TLC

\* ------------------------------------------------------------------ bounds
MaxBatches == 1         \* batches a loader yields per epoch: 0..MaxBatches
MaxEpochs == 2          \* config.epochs
MaxRestoreStep == 1     \* checkpoint["step"] of a restored run: 0..MaxRestoreStep

MaxDdiSteps == 2        \* config.data_dep_init_steps, where it varies: 0..MaxDdiSteps
MaxBatchSize == 3       \* items of the batch format_data is given: 1..MaxBatchSize

GpuCounts == {1, 2}     \* values of num_gpus: processes of a run

LossVals == {1, 2}      \* values criterion() can return for loss_dict["loss"]
TestSentences == {0, 1} \* indices of the lines of config.test_sentences_file
Flows == {0, 1, 2}      \* indices of model.decoder.flows
SupportsDdi == {0, 2}   \* the flows that have a set_ddi method
Speakers == {"p1", "p2"} \* speaker names of the dataset

RECURSIVE Fact(_)
Fact(n) == IF n <= 1 THEN 1 ELSE n * Fact(n - 1)
\* losses are kept in units of 1/LossScale, so the mean over num_gpus is exact
LossScale == Fact(CHOOSE n \in GpuCounts : \A k \in GpuCounts : k <= n)

VARIABLES
    num_gpus,       \* module global set by setup_torch_training_env (line 34)
    config,         \* the loaded configuration (module global, read-only)
    args,           \* command-line arguments: restore_path, best_path
    disk,           \* checkpoint["step"] at restore_path, ["model_loss"] at best_path
    n_train,        \* batches the train loader yields on every rank
    n_eval,         \* batches the eval loader yields on every rank (when built)
    loss_vals,      \* loss_vals[r]: the losses the batches of rank r's shard give
    pc,             \* pc[r]: position of rank r in main()
    global_step,    \* global_step[r]
    epoch,          \* epoch[r]: loop variable of main()
    num_iter,       \* num_iter[r]: batches consumed in the running loop
    ops,            \* ops[r]: operations of the running step / phase, in order
    model,          \* model[r]: parameters version, DDP wrapper, flows whose
                    \* data-dependent-init flag is on
    optimizer,      \* optimizer[r]: parameter updates made; lr = the scheduler
                    \* step its learning rate was set for (-1: config.lr)
    scheduler,      \* scheduler[r]: whether a NoamLR exists, and its last_epoch
    loaders,        \* loaders[r]: sampler kind of the train / eval loader
    dist,           \* dist[r]: process group initialised, collectives entered
    loss,           \* loss[r]: loss_dict["loss"] of the running step (0 between steps)
    sent,           \* sent[r][k]: the loss rank r handed to its last aggregation
                    \* of parity k (a rank is at most one aggregation ahead)
    keep_avg,       \* keep_avg[r]: KeepAverage of the running loop (sum, n)
    avg_loss,       \* avg_loss[r]: "avg_loss" train() / evaluate() returned this epoch
    best_loss,      \* best_loss[r]: best-loss tracker of main()
    exit_code,      \* exit_code[r]: -1 while running, else the exit status
    speaker_mapping, \* module global set by parse_speakers (line 498)
    data,           \* the batch format_data is given: speaker names (data[2])
                    \* and precomputed speaker embeddings (data[8])
    speaker_c       \* the speaker conditioning format_data returned

vars == <<num_gpus, config, args, disk, n_train, n_eval, loss_vals, pc, global_step,
          epoch, num_iter, ops, model, optimizer, scheduler, loaders, dist,
          loss, sent, keep_avg, avg_loss, best_loss, exit_code,
          speaker_mapping, data, speaker_c>>

\* what the actions of the training loop leave alone: the environment of the
\* run, and the contents of the batches, which the loop only hands on
env == <<num_gpus, config, args, disk, n_train, n_eval, loss_vals,
         speaker_mapping, data, speaker_c>>

Ranks == 0 .. (num_gpus - 1)

\* ----------------------------------------------------------------- values
\* a rational number num/den; den = 0 stands for float("inf")
Rat(n, d) == [num |-> n, den |-> d]
Inf == Rat(1, 0)
\* the value of a key that a dict does not hold
Missing == Rat(0, 0)
Less(a, b) == a.num * b.den < b.num * a.den

Bit(b) == IF b THEN 1 ELSE 0

\* one logged operation: its name and the step / epoch / value it carries
Ev(name, st, ep, val) == [op |-> name, step |-> st, epoch |-> ep, val |-> val]
Op(name) == Ev(name, 0, 0, 0)

Names(s) == [i \in DOMAIN s |-> s[i].op]
Count(s, name) == Cardinality({i \in DOMAIN s : s[i].op = name})
Has(s, name) == \E i \in DOMAIN s : s[i].op = name
\* position of the first occurrence of name in s, 0 when absent
Pos(s, name) ==
    IF Has(s, name) THEN CHOOSE i \in DOMAIN s :
                            s[i].op = name /\ \A j \in 1 .. (i - 1) : s[j].op # name
    ELSE 0
Before(s, a, b) == Pos(s, a) > 0 /\ Pos(s, b) > 0 /\ Pos(s, a) < Pos(s, b)

\* ------------------------------------------------------------------- Init
Configs ==
    [mixed_precision : BOOLEAN, noam_schedule : BOOLEAN, checkpoint : BOOLEAN,
     run_eval : BOOLEAN, save_step : {2}, print_step : {2},
     tb_plot_step : {1}, tb_model_param_stats : {TRUE}, print_eval : {TRUE},
     epochs : {MaxEpochs}, test_delay_epochs : {1},
     data_dep_init_steps : {1},
     use_speaker_embedding : {FALSE}, use_external_speaker_embedding_file : {FALSE}]

\* an optional tensor: None, or one entry per item
None == [present |-> FALSE, value |-> <<>>]
Tensor(v) == [present |-> TRUE, value |-> v]

\* a run without speaker conditioning: no speaker mapping; the contents of
\* its batches are left out
NoSpeakers ==
    /\ speaker_mapping = <<>>
    /\ data = [speaker_names |-> <<>>, speaker_embedding |-> None]
    /\ speaker_c = None

\* the state of every process when main() is entered
Start ==
    /\ pc = [r \in Ranks |-> "main"]
    /\ global_step = [r \in Ranks |-> 0]
    /\ epoch = [r \in Ranks |-> 0]
    /\ num_iter = [r \in Ranks |-> 0]
    /\ ops = [r \in Ranks |-> <<>>]
    /\ model = [r \in Ranks |-> [params |-> 0, ddp |-> FALSE, ddi |-> {}]]
    /\ optimizer = [r \in Ranks |-> [steps |-> 0, lr |-> -1]]
    /\ scheduler = [r \in Ranks |-> [on |-> FALSE, last_epoch |-> 0]]
    /\ loaders = [r \in Ranks |-> [train |-> "unset", eval |-> "unset"]]
    /\ dist = [r \in Ranks |-> [init |-> FALSE, entered |-> 0]]
    /\ loss = [r \in Ranks |-> 0]
    /\ sent = [r \in Ranks |-> [k \in 0 .. 1 |-> 0]]
    /\ keep_avg = [r \in Ranks |-> [sum |-> 0, n |-> 0]]
    /\ avg_loss = [r \in Ranks |-> [train |-> Missing, eval |-> Missing]]
    /\ best_loss = [r \in Ranks |-> Inf]
    /\ exit_code = [r \in Ranks |-> -1]

Init ==
    /\ num_gpus \in GpuCounts
    /\ config \in Configs
    /\ args \in [restore_path : BOOLEAN, best_path : BOOLEAN]
    /\ disk \in [step : 0 .. MaxRestoreStep, model_loss : {Rat(LossScale, 1)}]
    /\ (~args.restore_path => disk.step = 0 /\ ~args.best_path)
    /\ n_train \in 0 .. MaxBatches
    /\ n_eval \in 0 .. MaxBatches
    /\ (~config.run_eval => n_eval = 0)
    /\ loss_vals \in [Ranks -> {{v} : v \in LossVals}]
    /\ NoSpeakers
    /\ Start

\* ------------------------------------------------------------ setup_loader
\* (variant: the sampler is built whatever num_gpus is)
setup_loader_AlwaysSampler(is_val) ==
    IF is_val /\ ~config.run_eval THEN "None" ELSE "DistributedSampler"

\* lines 37-79: no loader for validation unless config.run_eval; a
\* DistributedSampler exactly when num_gpus > 1
setup_loader(is_val) ==
    IF is_val /\ ~config.run_eval THEN "None"
    ELSE IF num_gpus > 1 THEN "DistributedSampler" ELSE "plain"

\* --------------------------------------------------------------- main (top)
\* lines 486-488 and 531-533: the process group and the DDP wrapper
UseDistributed == num_gpus > 1

\* lines 505-525: args.restore_step
RestoreStep == IF args.restore_path THEN disk.step ELSE 0

\* lines 543-549: the starting best loss
InitialBestLoss ==
    IF RestoreStep = 0 \/ ~args.best_path THEN Inf ELSE disk.model_loss

\* (variant: no try block around the full load)
RestoreOps_Unguarded(fails) ==
    IF ~args.restore_path THEN <<>>
    ELSE <<Ev("torch_load", disk.step, 0, 0), Ev("full_load", disk.step, 0, Bit(~fails))>>
         \o (IF fails THEN <<Ev("raise", disk.step, 0, 0)>>
             ELSE <<Ev("restore_step", disk.step, 0, 0)>>)

\* lines 505-525: the checkpoint is read, optimizer and model are loaded in
\* full (fails = one of the two load_state_dict calls raised), the bare except
\* loads the compatible parameters, and checkpoint["step"] is taken
RestoreOps(fails) ==
    IF ~args.restore_path THEN <<>>
    ELSE <<Ev("torch_load", disk.step, 0, 0), Ev("full_load", disk.step, 0, Bit(~fails))>>
         \o (IF fails THEN <<Op("set_init_dict"), Ev("partial_load", disk.step, 0, 0)>>
             ELSE <<>>)
         \o <<Ev("restore_step", disk.step, 0, 0)>>

\* lines 486-525: main() up to the end of the restore
SetupOps(fails) ==
    (IF UseDistributed THEN <<Op("init_distributed")>> ELSE <<>>) \o RestoreOps(fails)

\* (variant: the scheduler of a restored run starts afresh)
SchedulerLastEpoch_Fresh(restore_step) == -1

\* line 536: the last_epoch argument of NoamLR
SchedulerLastEpoch(restore_step) == restore_step - 1

\* the constructor of a learning-rate scheduler takes one step from the
\* last_epoch it is given and sets the learning rate for the step it reaches
NoamLR(last_epoch) == last_epoch + 1

\* lines 482-557: everything main() does before data_depended_init
main_setup(r) ==
    /\ pc[r] = "main"
    /\ dist' = [dist EXCEPT ![r].init = UseDistributed]
    /\ \E fails \in BOOLEAN :
        /\ fails => args.restore_path
        /\ IF Has(SetupOps(fails), "raise")
           THEN /\ ops' = [ops EXCEPT ![r] = SetupOps(fails)]
                /\ pc' = [pc EXCEPT ![r] = "except"]
                /\ UNCHANGED <<model, scheduler, optimizer, best_loss, loaders,
                               global_step>>
           ELSE /\ model' = [model EXCEPT ![r].ddp = UseDistributed]
                /\ scheduler' = [scheduler EXCEPT ![r] =
                        IF config.noam_schedule
                        THEN [on |-> TRUE,
                              last_epoch |-> NoamLR(SchedulerLastEpoch(RestoreStep))]
                        ELSE [on |-> FALSE, last_epoch |-> 0]]
                /\ optimizer' = [optimizer EXCEPT ![r].lr =
                        IF config.noam_schedule
                        THEN NoamLR(SchedulerLastEpoch(RestoreStep)) ELSE -1]
                /\ best_loss' = [best_loss EXCEPT ![r] = InitialBestLoss]
                /\ loaders' = [loaders EXCEPT ![r] =
                        [train |-> setup_loader(FALSE), eval |-> setup_loader(TRUE)]]
                /\ global_step' = [global_step EXCEPT ![r] = RestoreStep]
                /\ ops' = [ops EXCEPT ![r] =
                        SetupOps(fails)
                        \o (IF UseDistributed THEN <<Op("DDP_th")>> ELSE <<>>)
                        \o (IF config.noam_schedule THEN <<Op("NoamLR")>> ELSE <<>>)
                        \o <<Ev("setup_loader", 0, 0, 0), Ev("setup_loader", 0, 0, 1)>>]
                /\ pc' = [pc EXCEPT ![r] = "ddi"]
    /\ UNCHANGED <<env, epoch, num_iter, loss, sent, keep_avg, avg_loss,
                   exit_code>>

\* -------------------------------------------------------------- format_data
\* (variant: one id for the whole batch)
format_data_OneId(d) ==
    IF config.use_speaker_embedding
    THEN IF config.use_external_speaker_embedding_file
         THEN d.speaker_embedding
         ELSE Tensor(<<speaker_mapping[d.speaker_names[1]]>>)
    ELSE None

\* lines 94-103: the speaker conditioning of the batch d
format_data(d) ==
    IF config.use_speaker_embedding
    THEN IF config.use_external_speaker_embedding_file
         THEN d.speaker_embedding
         ELSE Tensor([i \in DOMAIN d.speaker_names |-> speaker_mapping[d.speaker_names[i]]])
    ELSE None

\* one call of format_data
format_step(r) ==
    /\ pc[r] = "format_data"
    /\ speaker_c' = format_data(data)
    /\ pc' = [pc EXCEPT ![r] = "formatted"]
    /\ UNCHANGED <<num_gpus, config, args, disk, n_train, n_eval, loss_vals,
                   speaker_mapping, data, global_step, epoch, num_iter, ops,
                   model, optimizer, scheduler, loaders, dist, loss, sent,
                   keep_avg, avg_loss, best_loss, exit_code>>

\* ------------------------------------------------------ data_depended_init
\* lines 141-152: forward passes of the warm-up loop over n batches; the break
\* test follows the forward pass and precedes the increment of num_iter
RECURSIVE DdiForwards(_, _, _)
DdiForwards(n, i, steps) ==
    IF n = 0 THEN 0
    ELSE IF i = steps THEN 1
    ELSE 1 + DdiForwards(n - 1, i + 1, steps)

RECURSIVE Repeat(_, _)
Repeat(e, k) == IF k = 0 THEN <<>> ELSE <<e>> \o Repeat(e, k - 1)

\* a set of flows as a bit mask over their indices
RECURSIVE FlagMask(_)
FlagMask(S) ==
    IF S = {} THEN 0
    ELSE LET f == CHOOSE x \in S : TRUE IN (2 ^ f) + FlagMask(S \ {f})

\* lines 130 and 154: the flows are looked up in model.module when the model
\* has that attribute, which is when DDP_th wraps it
ViaModule(ddp) == ddp

\* model.module of a plain model and model.decoder of a wrapped one raise
LookupRaises(ddp) == ViaModule(ddp) # ddp

\* (variant: the loop after the warm-up is missing)
SetDdi_Only(flags, ddi) == IF ddi THEN flags \cup SupportsDdi ELSE flags

\* lines 131-137 and 155-161: f.set_ddi(ddi) on every flow that has set_ddi
SetDdi(flags, ddi) ==
    IF ddi THEN flags \cup SupportsDdi ELSE flags \ SupportsDdi

\* lines 128-162: the log of the call for a loader of n batches
DdiOps(n, gs, ddp, flags) ==
    IF LookupRaises(ddp) THEN <<Ev("raise", gs, 0, 0)>>
    ELSE <<Ev("set_ddi", 0, 0, 1)>>
         \o Repeat(Ev("forward", gs, 0, FlagMask(SetDdi(flags, TRUE))),
                   DdiForwards(n, 0, config.data_dep_init_steps))
         \o <<Ev("set_ddi", 0, 0, 0)>>

\* lines 128-162
data_depended_init(r) ==
    /\ pc[r] = "ddi"
    /\ ops' = [ops EXCEPT ![r] =
            DdiOps(n_train, global_step[r], model[r].ddp, model[r].ddi)]
    /\ IF LookupRaises(model[r].ddp)
       THEN /\ model' = model
            /\ pc' = [pc EXCEPT ![r] = "except"]
       ELSE /\ model' = [model EXCEPT ![r].ddi =
                    SetDdi(SetDdi(model[r].ddi, TRUE), FALSE)]
            /\ pc' = [pc EXCEPT ![r] = "epoch"]
    /\ UNCHANGED <<env, global_step, epoch, num_iter, optimizer, scheduler,
                   loaders, dist, loss, sent, keep_avg, avg_loss, best_loss,
                   exit_code>>

\* -------------------------------------------------------------------- train
\* (variant: the mixed-precision branch clips the still scaled gradients)
BackwardOps_ClipScaled ==
    IF config.mixed_precision
    THEN <<Ev("backward", 0, 0, 1), Op("clip_grad_norm_"), Op("unscale_"),
           Ev("optimizer_step", 0, 0, 1), Op("scaler_update")>>
    ELSE <<Ev("backward", 0, 0, 0), Op("clip_grad_norm_"),
           Ev("optimizer_step", 0, 0, 0)>>

\* lines 207-217: backward pass, clipping and parameter update of one step
BackwardOps ==
    IF config.mixed_precision
    THEN <<Ev("backward", 0, 0, 1), Op("unscale_"), Op("clip_grad_norm_"),
           Ev("optimizer_step", 0, 0, 1), Op("scaler_update")>>
    ELSE <<Ev("backward", 0, 0, 0), Op("clip_grad_norm_"),
           Ev("optimizer_step", 0, 0, 0)>>

\* (variant: the scheduler is stepped whatever the configuration says)
SchedulerOps_Always == <<Op("scheduler_step")>>

\* lines 219-221
SchedulerOps == IF config.noam_schedule THEN <<Op("scheduler_step")>> ELSE <<>>

\* (variant: the scheduler is stepped ahead of the backward pass and update)
TrainStepOps_SchedulerFirst(gs, ddi, v) ==
    <<Ev("format_data", gs, 0, 0), Op("zero_grad"),
      Ev("forward", gs, 0, FlagMask(ddi)), Ev("criterion", gs, 0, v)>>
    \o SchedulerOps \o BackwardOps \o <<Op("alignment_diagonal_score")>>

\* lines 178-231: one step of train() up to the loss aggregation, for the
\* step numbered gs with the model's ddi flag and the loss v of criterion()
TrainStepOps(gs, ddi, v) ==
    <<Ev("format_data", gs, 0, 0), Op("zero_grad"),
      Ev("forward", gs, 0, FlagMask(ddi)), Ev("criterion", gs, 0, v)>>
    \o BackwardOps \o SchedulerOps \o <<Op("alignment_diagonal_score")>>

\* (variant: the counter is not advanced)
NextStep_Forgotten(gs) == gs

\* line 195
NextStep(gs) == gs + 1

\* (variant: the aggregation sits inside the rank-0 block)
UseReduce_PrimaryOnly(r) == num_gpus > 1 /\ r = 0

\* (variant: the aggregation is left out)
UseReduce_Never(r) == FALSE

\* lines 233-237 and 362-366: the losses are reduced when num_gpus > 1
UseReduce(r) == num_gpus > 1

\* line 267 (also 324, 386, 415): the rank that logs, checkpoints and writes
IsPrimary(r) == r = 0

\* (variant: the cadence is taken one step late)
SaveCadence_Late(gs) == (gs - 1) % config.save_step = 0

\* line 275
SaveCadence(gs) == gs % config.save_step = 0

\* lines 276-287: the periodic checkpoint of step gs
CheckpointOps(gs, ep, v) ==
    IF config.checkpoint THEN <<Ev("save_checkpoint", gs, ep, v)>> ELSE <<>>

\* (variant: the synchronisation follows the inference)
DiagnosticOps_SyncLast(gs, raises) ==
    <<Ev("inference", gs, 0, 0), Op("synchronize")>>
    \o (IF raises THEN <<Ev("raise", gs, 0, 0)>>
        ELSE <<Ev("tb_train_figures", gs, 0, 0), Ev("tb_train_audios", gs, 0, 0)>>)

\* lines 289-317: synchronisation, then the diagnostic inference and what it
\* feeds the collector; raises = model.inference raised
DiagnosticOps(gs, raises) ==
    <<Op("synchronize"), Ev("inference", gs, 0, 0)>>
    \o (IF raises THEN <<Ev("raise", gs, 0, 0)>>
        ELSE <<Ev("tb_train_figures", gs, 0, 0), Ev("tb_train_audios", gs, 0, 0)>>)

\* lines 239-317: what follows the loss aggregation in one step
TrainLogOps(r, gs, ep, v, raises) ==
    <<Ev("update_values", gs, 0, v)>>
    \o (IF gs % config.print_step = 0 THEN <<Ev("print_train_step", gs, 0, 0)>>
        ELSE <<>>)
    \o (IF IsPrimary(r)
        THEN (IF gs % config.tb_plot_step = 0
              THEN <<Ev("tb_train_iter_stats", gs, 0, 0)>> ELSE <<>>)
             \o (IF SaveCadence(gs)
                 THEN CheckpointOps(gs, ep, v) \o DiagnosticOps(gs, raises)
                 ELSE <<>>)
        ELSE <<>>)

\* KeepAverage.update_values with the value v of "avg_loss"
update_values(k, v) == [sum |-> k.sum + v, n |-> k.n + 1]

\* keep_avg.avg_values["avg_loss"]: absent before the first update
avg_values(k) == IF k.n = 0 THEN Missing ELSE Rat(k.sum, k.n)

\* (variant: the loop runs up to config.epochs inclusive)
EpochInRange_Inclusive(ep) == ep <= config.epochs

\* line 559: range(0, config.epochs)
EpochInRange(ep) == ep < config.epochs

\* line 559: the head of the epoch loop of main(), and lines 167-176 of train()
epoch_begin(r) ==
    /\ pc[r] = "epoch"
    /\ IF EpochInRange(epoch[r])
       THEN /\ pc' = [pc EXCEPT ![r] = "train"]
            /\ exit_code' = exit_code
       ELSE /\ pc' = [pc EXCEPT ![r] = "done"]
            /\ exit_code' = [exit_code EXCEPT ![r] = 0]
    /\ keep_avg' = [keep_avg EXCEPT ![r] = [sum |-> 0, n |-> 0]]
    /\ num_iter' = [num_iter EXCEPT ![r] = 0]
    /\ ops' = [ops EXCEPT ![r] = <<>>]
    /\ UNCHANGED <<env, global_step, epoch, model, optimizer, scheduler,
                   loaders, dist, loss, sent, avg_loss, best_loss>>

\* entering the loss aggregation of a step (the first reduce_tensor call)
EnterReduce(d) == [d EXCEPT !.entered = d.entered + 1]

\* lines 177-237: one batch of train() up to the loss aggregation
train_step(r) ==
    /\ pc[r] = "train"
    /\ num_iter[r] < n_train
    /\ \E v \in loss_vals[r] :
        /\ global_step' = [global_step EXCEPT ![r] = NextStep(global_step[r])]
        /\ ops' = [ops EXCEPT ![r] =
                TrainStepOps(global_step'[r], model[r].ddi, v * LossScale)]
        /\ loss' = [loss EXCEPT ![r] = v * LossScale]
    /\ model' = [model EXCEPT ![r].params =
            model[r].params + Count(BackwardOps, "optimizer_step")]
    /\ scheduler' = [scheduler EXCEPT ![r].last_epoch =
            scheduler[r].last_epoch + Count(SchedulerOps, "scheduler_step")]
    /\ optimizer' = [optimizer EXCEPT
            ![r].steps = optimizer[r].steps + Count(BackwardOps, "optimizer_step"),
            ![r].lr = IF Has(SchedulerOps, "scheduler_step")
                      THEN scheduler'[r].last_epoch ELSE optimizer[r].lr]
    /\ IF UseReduce(r)
       THEN /\ dist' = [dist EXCEPT ![r] = EnterReduce(dist[r])]
            /\ sent' = [sent EXCEPT ![r][dist'[r].entered % 2] = loss'[r]]
            /\ pc' = [pc EXCEPT ![r] = "train_reduce"]
       ELSE /\ UNCHANGED <<dist, sent>>
            /\ pc' = [pc EXCEPT ![r] = "train_log"]
    /\ UNCHANGED <<env, epoch, num_iter, loaders, keep_avg, avg_loss,
                   best_loss, exit_code>>

\* ------------------------------------------------------------ reduce_tensor
\* a blocking all-reduce: the call of rank r returns once every rank has
\* entered the same call
AllReduceReady(r) == \A q \in Ranks : dist[q].entered >= dist[r].entered

RECURSIVE SumSent(_, _)
SumSent(n, k) == IF n = 0 THEN 0 ELSE sent[n - 1][k] + SumSent(n - 1, k)

\* the all-reduced sum of the aggregation rank r is in, divided by num_gpus
AllReduceMean(r) == SumSent(num_gpus, dist[r].entered % 2) \div num_gpus

\* lines 235-237 (train) and 364-366 (evaluate): the reduce_tensor calls of
\* "log_mle", "loss_dur" and "loss".  They follow one another with nothing in
\* between, so once every rank has entered the first, all three return on
\* every rank: they are one rendezvous, and "loss" becomes the mean
reduce_tensor(r) ==
    /\ pc[r] \in {"train_reduce", "eval_reduce"}
    /\ AllReduceReady(r)
    /\ ops' = [ops EXCEPT ![r] = ops[r] \o
            <<Ev("reduce_tensor", global_step[r], 0, 0),
              Ev("reduce_tensor", global_step[r], 0, 1),
              Ev("reduce_tensor", global_step[r], 0, 2)>>]
    /\ loss' = [loss EXCEPT ![r] = AllReduceMean(r)]
    /\ pc' = [pc EXCEPT ![r] =
            IF pc[r] = "train_reduce" THEN "train_log" ELSE "eval_log"]
    /\ UNCHANGED <<env, global_step, epoch, num_iter, model, optimizer,
                   scheduler, loaders, dist, sent, keep_avg, avg_loss,
                   best_loss, exit_code>>

\* lines 239-318: the rest of the step, after the loss aggregation
train_log(r) ==
    /\ pc[r] = "train_log"
    /\ \E raises \in BOOLEAN :
        /\ raises => Has(TrainLogOps(r, global_step[r], epoch[r], loss[r], TRUE), "raise")
        /\ ops' = [ops EXCEPT ![r] =
                ops[r] \o TrainLogOps(r, global_step[r], epoch[r], loss[r], raises)]
        /\ pc' = [pc EXCEPT ![r] = IF raises THEN "except" ELSE "train"]
    /\ keep_avg' = [keep_avg EXCEPT ![r] = update_values(keep_avg[r], loss[r])]
    /\ num_iter' = [num_iter EXCEPT ![r] = num_iter[r] + 1]
    /\ loss' = [loss EXCEPT ![r] = 0]
    /\ UNCHANGED <<env, global_step, epoch, model, optimizer, scheduler,
                   loaders, dist, sent, avg_loss, best_loss, exit_code>>

\* lines 320-329: the end of the epoch of train()
TrainEndOps(r, gs) ==
    <<Ev("print_train_epoch_end", gs, 0, 0)>>
    \o (IF IsPrimary(r)
        THEN <<Ev("tb_train_epoch_stats", gs, 0, 0)>>
             \o (IF config.tb_model_param_stats
                 THEN <<Ev("tb_model_weights", gs, 0, 0)>> ELSE <<>>)
        ELSE <<>>)

\* lines 320-330: train() returns; lines 335-338: evaluate() is entered
train_end(r) ==
    /\ pc[r] = "train"
    /\ num_iter[r] = n_train
    /\ ops' = [ops EXCEPT ![r] = TrainEndOps(r, global_step[r])]
    /\ avg_loss' = [avg_loss EXCEPT ![r].train = avg_values(keep_avg[r])]
    /\ keep_avg' = [keep_avg EXCEPT ![r] = [sum |-> 0, n |-> 0]]
    /\ num_iter' = [num_iter EXCEPT ![r] = 0]
    /\ pc' = [pc EXCEPT ![r] = "evaluate"]
    /\ UNCHANGED <<env, global_step, epoch, model, optimizer, scheduler,
                   loaders, dist, loss, sent, best_loss, exit_code>>

\* ----------------------------------------------------------------- evaluate
\* (variant: the body of the train step, update included)
EvalStepOps_Training(gs, ddi, v) ==
    <<Ev("format_data", gs, 0, 0), Op("zero_grad"), Ev("forward", gs, 0, FlagMask(ddi)),
      Ev("criterion", gs, 0, v), Ev("backward", 0, 0, 0),
      Ev("optimizer_step", 0, 0, 0), Op("alignment_diagonal_score")>>

\* lines 341-360: one batch of evaluate() up to the loss aggregation
EvalStepOps(gs, ddi, v) ==
    <<Ev("format_data", gs, 0, 0), Ev("forward", gs, 0, FlagMask(ddi)),
      Ev("criterion", gs, 0, v), Op("alignment_diagonal_score")>>

eval_step(r) ==
    /\ pc[r] = "evaluate"
    /\ loaders[r].eval # "None"
    /\ num_iter[r] < n_eval
    /\ \E v \in loss_vals[r] :
        /\ ops' = [ops EXCEPT ![r] = EvalStepOps(global_step[r], model[r].ddi, v * LossScale)]
        /\ loss' = [loss EXCEPT ![r] = v * LossScale]
    /\ IF UseReduce(r)
       THEN /\ dist' = [dist EXCEPT ![r] = EnterReduce(dist[r])]
            /\ sent' = [sent EXCEPT ![r][dist'[r].entered % 2] = loss'[r]]
            /\ pc' = [pc EXCEPT ![r] = "eval_reduce"]
       ELSE /\ UNCHANGED <<dist, sent>>
            /\ pc' = [pc EXCEPT ![r] = "eval_log"]
    /\ UNCHANGED <<env, global_step, epoch, num_iter, model, optimizer,
                   scheduler, loaders, keep_avg, avg_loss, best_loss,
                   exit_code>>

\* lines 368-384
EvalLogOps(gs, v) ==
    <<Ev("update_values", gs, 0, v)>>
    \o (IF config.print_eval THEN <<Ev("print_eval_step", gs, 0, 0)>> ELSE <<>>)

eval_log(r) ==
    /\ pc[r] = "eval_log"
    /\ ops' = [ops EXCEPT ![r] = ops[r] \o EvalLogOps(global_step[r], loss[r])]
    /\ keep_avg' = [keep_avg EXCEPT ![r] = update_values(keep_avg[r], loss[r])]
    /\ num_iter' = [num_iter EXCEPT ![r] = num_iter[r] + 1]
    /\ loss' = [loss EXCEPT ![r] = 0]
    /\ pc' = [pc EXCEPT ![r] = "evaluate"]
    /\ UNCHANGED <<env, global_step, epoch, model, optimizer, scheduler,
                   loaders, dist, sent, avg_loss, best_loss, exit_code>>

\* lines 386-413: the diagnostics after the loop, from the variables the last
\* batch left behind; with no batch those variables were never bound
EvalDiagnosticOps(r, gs, built, batches) ==
    IF built /\ IsPrimary(r)
    THEN (IF batches = 0 THEN <<Ev("raise", gs, 0, 0)>>
          ELSE <<Ev("inference", gs, 0, 0), Ev("tb_eval_audios", gs, 0, 0),
                 Ev("tb_eval_stats", gs, 0, 0), Ev("tb_eval_figures", gs, 0, 0)>>)
    ELSE <<>>

\* (variant: the epoch of the threshold itself is skipped)
RunsTestSentences_Strict(r, ep) == IsPrimary(r) /\ ep > config.test_delay_epochs

\* line 415
RunsTestSentences(r, ep) == IsPrimary(r) /\ ep >= config.test_delay_epochs

\* lines 447-472: how the try block of one sentence ends: "ok", or the call
\* that raised
Outcomes == {"ok", "synthesis", "save_wav", "plot_spectrogram", "plot_alignment"}

AllOk == [idx \in TestSentences |-> "ok"]

\* lines 448-472: the try block of sentence idx and its except clause
SentenceTry(idx, gs, o) ==
    <<Ev("synthesis", gs, 0, idx)>>
    \o (IF o \in {"ok", "plot_spectrogram", "plot_alignment"}
        THEN <<Ev("save_wav", gs, 0, idx)>> ELSE <<>>)
    \o (IF o # "ok" THEN <<Ev("synthesis_error", gs, 0, idx)>> ELSE <<>>)

\* (variant: no try block: the exception of a sentence leaves the loop)
RECURSIVE SentenceOps_Unguarded(_, _, _)
SentenceOps_Unguarded(idx, gs, outcome) ==
    IF idx \notin TestSentences THEN <<>>
    ELSE IF outcome[idx] # "ok"
         THEN <<Ev("synthesis", gs, 0, idx), Ev("raise", gs, 0, idx)>>
         ELSE SentenceTry(idx, gs, outcome[idx])
              \o SentenceOps_Unguarded(idx + 1, gs, outcome)

\* lines 446-472: the sentences idx .. in order; an exception is caught per
\* sentence and the loop goes on
RECURSIVE SentenceOps(_, _, _)
SentenceOps(idx, gs, outcome) ==
    IF idx \notin TestSentences THEN <<>>
    ELSE SentenceTry(idx, gs, outcome[idx]) \o SentenceOps(idx + 1, gs, outcome)

\* the keys of a dict filled per sentence, as a bit mask over the indices
RECURSIVE Mask(_, _, _)
Mask(idx, outcome, S) ==
    IF idx \notin TestSentences THEN 0
    ELSE Bit(outcome[idx] \in S) + 2 * Mask(idx + 1, outcome, S)

\* lines 467-469: test_audios is filled after save_wav, the prediction figure
\* after plot_spectrogram, the alignment figure after plot_alignment
TestAudios(outcome) == Mask(0, outcome, {"ok", "plot_spectrogram", "plot_alignment"})
PredictionFigures(outcome) == Mask(0, outcome, {"ok", "plot_alignment"})
AlignmentFigures(outcome) == Mask(0, outcome, {"ok"})

\* lines 415-474; tb_test_figures carries the two masks of test_figures
TestSentenceOps(r, gs, ep, outcome) ==
    IF RunsTestSentences(r, ep)
    THEN LET body == SentenceOps(0, gs, outcome)
         IN  IF Has(body, "raise") THEN body
             ELSE body
                  \o <<Ev("tb_test_audios", gs, 0, TestAudios(outcome)),
                       Ev("tb_test_figures", gs, 0,
                          PredictionFigures(outcome)
                          + (2 ^ Cardinality(TestSentences)) * AlignmentFigures(outcome))>>
    ELSE <<>>

\* lines 386-475: what evaluate() does after its loop
EvalEndOps(r, gs, ep, built, batches, outcome) ==
    LET diag == EvalDiagnosticOps(r, gs, built, batches)
    IN  IF Has(diag, "raise") THEN diag
        ELSE diag \o TestSentenceOps(r, gs, ep, outcome)

evaluate_end(r) ==
    /\ pc[r] = "evaluate"
    /\ loaders[r].eval = "None" \/ num_iter[r] = n_eval
    /\ \E outcome \in [TestSentences -> Outcomes] :
        /\ outcome # AllOk => RunsTestSentences(r, epoch[r])
        /\ ops' = [ops EXCEPT ![r] =
                EvalEndOps(r, global_step[r], epoch[r], loaders[r].eval # "None",
                           num_iter[r], outcome)]
    /\ IF Has(ops'[r], "raise")
       THEN /\ pc' = [pc EXCEPT ![r] = "except"]
            /\ avg_loss' = avg_loss
       ELSE /\ pc' = [pc EXCEPT ![r] = "save_best"]
            /\ avg_loss' = [avg_loss EXCEPT ![r].eval = avg_values(keep_avg[r])]
    /\ UNCHANGED <<env, global_step, epoch, num_iter, model, optimizer,
                   scheduler, loaders, dist, loss, sent, keep_avg, best_loss,
                   exit_code>>

\* ------------------------------------------------------- main (epoch loop)
\* lines 566-568: the loss that best-model selection is given
TargetLoss(a) == IF config.run_eval THEN a.eval ELSE a.train

\* lines 566-568: a lookup of "avg_loss" in a dict that does not hold it raises
TargetLossRaises(a) == a.train = Missing \/ (config.run_eval /\ a.eval = Missing)

\* (variant: the latest loss is kept)
IsBetter_Always(target, best) == TRUE

\* save_best_model keeps a strictly better loss and writes the snapshot then
IsBetter(target, best) == Less(target, best)

\* lines 565-581
save_best(r) ==
    /\ pc[r] = "save_best"
    /\ IF TargetLossRaises(avg_loss[r])
       THEN /\ ops' = [ops EXCEPT ![r] =
                    <<Ev("print_epoch_end", global_step[r], epoch[r], 0),
                      Ev("raise", global_step[r], epoch[r], 0)>>]
            /\ pc' = [pc EXCEPT ![r] = "except"]
            /\ UNCHANGED <<best_loss, epoch, avg_loss>>
       ELSE /\ ops' = [ops EXCEPT ![r] =
                    <<Ev("print_epoch_end", global_step[r], epoch[r], 0)>>
                    \o (IF IsBetter(TargetLoss(avg_loss[r]), best_loss[r])
                        THEN <<Ev("save_best_model", global_step[r], epoch[r], 0)>>
                        ELSE <<>>)]
            /\ best_loss' = [best_loss EXCEPT ![r] =
                    IF IsBetter(TargetLoss(avg_loss[r]), best_loss[r])
                    THEN TargetLoss(avg_loss[r]) ELSE best_loss[r]]
            /\ epoch' = [epoch EXCEPT ![r] = epoch[r] + 1]
            /\ avg_loss' = [avg_loss EXCEPT ![r] = [train |-> Missing, eval |-> Missing]]
            /\ pc' = [pc EXCEPT ![r] = "epoch"]
    /\ UNCHANGED <<env, global_step, num_iter, model, optimizer, scheduler,
                   loaders, dist, loss, sent, keep_avg, exit_code>>

\* ----------------------------------------------------------------- __main__
\* a rank that is executing Python code (not blocked inside a collective, not
\* yet in the handler, not exited)
Running(r) ==
    pc[r] \in {"main", "ddi", "epoch", "train", "train_log", "evaluate",
               "eval_log", "save_best"}

\* KeyboardInterrupt delivered to rank r while it runs main()
interrupt(r) ==
    /\ Running(r)
    /\ pc' = [pc EXCEPT ![r] = "interrupt"]
    /\ UNCHANGED <<env, global_step, epoch, num_iter, ops, model, optimizer,
                   scheduler, loaders, dist, loss, sent, keep_avg, avg_loss,
                   best_loss, exit_code>>

\* an exception other than KeyboardInterrupt raised by the code rank r runs,
\* outside the try blocks of lines 508 and 447
exception(r) ==
    /\ Running(r)
    /\ pc' = [pc EXCEPT ![r] = "except"]
    /\ ops' = [ops EXCEPT ![r] = ops[r] \o <<Ev("raise", global_step[r], epoch[r], 0)>>]
    /\ UNCHANGED <<env, global_step, epoch, num_iter, model, optimizer,
                   scheduler, loaders, dist, loss, sent, keep_avg, avg_loss,
                   best_loss, exit_code>>

\* lines 590 and 596-597: what the handler does before it exits
HandlerOps(interrupted) ==
    <<Op("remove_experiment_folder")>>
    \o (IF interrupted THEN <<>> ELSE <<Op("print_exc")>>)

\* (variant: the interrupt is reported as a failure)
ExitCode_Failure(interrupted) == 1

\* lines 592-594 and 598: os._exit(0) after an interrupt, sys.exit(1) otherwise
ExitCode(interrupted) == IF interrupted THEN 0 ELSE 1

\* lines 589-598: the two handlers around main(args)
handler(r) ==
    /\ pc[r] \in {"interrupt", "except"}
    /\ ops' = [ops EXCEPT ![r] = HandlerOps(pc[r] = "interrupt")]
    /\ exit_code' = [exit_code EXCEPT ![r] = ExitCode(pc[r] = "interrupt")]
    /\ pc' = [pc EXCEPT ![r] = "exited"]
    /\ UNCHANGED <<env, global_step, epoch, num_iter, model, optimizer,
                   scheduler, loaders, dist, loss, sent, keep_avg, avg_loss,
                   best_loss>>

\* --------------------------------------------------------------------- Spec
Next ==
    \/ \E r \in Ranks : main_setup(r)
    \/ \E r \in Ranks : data_depended_init(r)
    \/ \E r \in Ranks : epoch_begin(r)
    \/ \E r \in Ranks : train_step(r)
    \/ \E r \in Ranks : reduce_tensor(r)
    \/ \E r \in Ranks : train_log(r)
    \/ \E r \in Ranks : train_end(r)
    \/ \E r \in Ranks : eval_step(r)
    \/ \E r \in Ranks : eval_log(r)
    \/ \E r \in Ranks : evaluate_end(r)
    \/ \E r \in Ranks : save_best(r)
    \/ \E r \in Ranks : handler(r)

\* the same with KeyboardInterrupt delivered at any point of main()
NextInterrupt == Next \/ \E r \in Ranks : interrupt(r)

Spec == Init /\ [][Next]_vars

SpecInterrupt == Init /\ [][NextInterrupt]_vars

\* the same with an exception raised at any point of main() as well
NextFailures == NextInterrupt \/ \E r \in Ranks : exception(r)

\* the path main() takes through its phases, and the interrupts and
\* exceptions, do not depend on the loss values, on the precision of the
\* update, on the scheduler or on the starting best loss: one choice of each
InitFailures ==
    /\ Init
    /\ ~config.mixed_precision /\ ~config.noam_schedule
    /\ ~args.best_path
    /\ loss_vals = [r \in Ranks |-> {1}]

\* runs whose losses change from batch to batch and so from epoch to epoch
\* (on rank 0, which changes the mean over the ranks as well), started without a best loss, or with one that the losses of the run can
\* equal or beat; the update is the plain one
InitLosses ==
    /\ num_gpus \in GpuCounts
    /\ config \in {c \in Configs :
                        ~c.mixed_precision /\ ~c.noam_schedule /\ c.checkpoint}
    /\ args \in [restore_path : BOOLEAN, best_path : BOOLEAN]
    /\ disk \in [step : 0 .. MaxRestoreStep,
                 model_loss : {Rat(2 * LossScale, 1), Rat(3 * LossScale, 2)}]
    /\ (~args.restore_path => disk.step = 0 /\ ~args.best_path)
    /\ n_train \in 0 .. MaxBatches
    /\ n_eval \in 0 .. MaxBatches
    /\ (~config.run_eval => n_eval = 0)
    /\ loss_vals = [r \in Ranks |-> IF r = 0 THEN LossVals ELSE {1}]
    /\ NoSpeakers
    /\ Start

SpecLosses == InitLosses /\ [][Next]_vars

\* runs whose number of warm-up steps varies, over train loaders shorter and
\* longer than it; the rest as in InitFailures
InitDdi ==
    /\ num_gpus \in GpuCounts
    /\ config \in {[c EXCEPT !.data_dep_init_steps = k] :
                        c \in {d \in Configs : ~d.mixed_precision /\ ~d.noam_schedule},
                        k \in 0 .. MaxDdiSteps}
    /\ args = [restore_path |-> FALSE, best_path |-> FALSE]
    /\ disk \in [step : {0}, model_loss : {Rat(LossScale, 1)}]
    /\ n_train \in 0 .. (MaxDdiSteps + 1)
    /\ n_eval \in 0 .. MaxBatches
    /\ (~config.run_eval => n_eval = 0)
    /\ loss_vals = [r \in Ranks |-> {1}]
    /\ NoSpeakers
    /\ Start

SpecDdi == InitDdi /\ [][Next]_vars

\* the embedding the external file holds for a speaker
Embedding(name) == <<name, "embedding">>

\* the speaker mappings parse_speakers builds: none without speaker
\* conditioning, else an id per speaker, or the embeddings of the external file
SpeakerMappings(c) ==
    IF ~c.use_speaker_embedding THEN {<<>>}
    ELSE IF c.use_external_speaker_embedding_file
         THEN {[n \in Speakers |-> Embedding(n)]}
         ELSE {m \in [Speakers -> 0 .. (Cardinality(Speakers) - 1)] :
                    \A a, b \in Speakers : m[a] = m[b] => a = b}

\* the batches the loader collates: the speaker name of each item, and the
\* embedding of each item when the dataset was given the speaker mapping
\* (lines 58-60)
Batches(c) ==
    {[speaker_names |-> names,
      speaker_embedding |->
            IF c.use_speaker_embedding /\ c.use_external_speaker_embedding_file
            THEN Tensor([i \in DOMAIN names |-> Embedding(names[i])])
            ELSE None] :
        names \in UNION {[1 .. n -> Speakers] : n \in 1 .. MaxBatchSize}}

\* one process about to format a batch, for every setting of the speaker
\* conditioning
InitFormat ==
    /\ num_gpus = 1
    /\ config \in {[c EXCEPT !.use_speaker_embedding = u,
                              !.use_external_speaker_embedding_file = e] :
                        c \in {d \in Configs : ~d.mixed_precision /\ ~d.noam_schedule
                                                /\ d.checkpoint /\ d.run_eval},
                        u \in BOOLEAN, e \in BOOLEAN}
    /\ args = [restore_path |-> FALSE, best_path |-> FALSE]
    /\ disk = [step |-> 0, model_loss |-> Rat(LossScale, 1)]
    /\ n_train = 1 /\ n_eval = 1
    /\ loss_vals = [r \in Ranks |-> {1}]
    /\ speaker_mapping \in SpeakerMappings(config)
    /\ data \in Batches(config)
    /\ speaker_c = None
    /\ global_step = [r \in Ranks |-> 0]
    /\ epoch = [r \in Ranks |-> 0]
    /\ num_iter = [r \in Ranks |-> 0]
    /\ ops = [r \in Ranks |-> <<>>]
    /\ model = [r \in Ranks |-> [params |-> 0, ddp |-> FALSE, ddi |-> {}]]
    /\ optimizer = [r \in Ranks |-> [steps |-> 0, lr |-> -1]]
    /\ scheduler = [r \in Ranks |-> [on |-> FALSE, last_epoch |-> 0]]
    /\ loaders = [r \in Ranks |-> [train |-> "plain", eval |-> "plain"]]
    /\ dist = [r \in Ranks |-> [init |-> FALSE, entered |-> 0]]
    /\ loss = [r \in Ranks |-> 0]
    /\ sent = [r \in Ranks |-> [k \in 0 .. 1 |-> 0]]
    /\ keep_avg = [r \in Ranks |-> [sum |-> 0, n |-> 0]]
    /\ avg_loss = [r \in Ranks |-> [train |-> Missing, eval |-> Missing]]
    /\ best_loss = [r \in Ranks |-> Inf]
    /\ exit_code = [r \in Ranks |-> -1]
    /\ pc = [r \in Ranks |-> "format_data"]

NextFormat == \E r \in Ranks : format_step(r)

SpecFormat == InitFormat /\ [][NextFormat]_vars

\* the ranks a run can have
RankIds == 0 .. ((CHOOSE n \in GpuCounts : \A k \in GpuCounts : k <= n) - 1)

\* what rank r can do next
Proc(r) ==
    \/ main_setup(r) \/ data_depended_init(r) \/ epoch_begin(r) \/ train_step(r)
    \/ reduce_tensor(r) \/ train_log(r) \/ train_end(r) \/ eval_step(r)
    \/ eval_log(r) \/ evaluate_end(r) \/ save_best(r) \/ handler(r)

\* every process keeps running: a process that can take a step takes one
SpecFair ==
    /\ InitFailures
    /\ [][Next]_vars
    /\ \A r \in RankIds : WF_vars(r \in Ranks /\ Proc(r))

\* a handler that was entered runs to its exit
SpecFailures ==
    /\ InitFailures
    /\ [][NextFailures]_vars
    /\ \A r \in RankIds : WF_vars(r \in Ranks /\ handler(r))

\* ======================================================== checked properties
IsPrefix(a, b) == Len(a) <= Len(b) /\ \A i \in 1 .. Len(a) : a[i] = b[i]

\* the names of s that are in the set S, in the order of s
Only(s, S) == LET In(x) == x \in S IN SelectSeq(Names(s), In)

\* ops[r] is the log of a step of train() / of a step that ran to its end
TrainStepLog(r) == Has(ops[r], "zero_grad")
TrainStepDone(r) == TrainStepLog(r) /\ pc[r] = "train"

\* the operations of a step named by the step contract, and the logging,
\* checkpointing and diagnostics that may follow them
CoreOps ==
    {"format_data", "zero_grad", "forward", "criterion", "backward",
     "clip_grad_norm_", "optimizer_step", "scheduler_step", "reduce_tensor",
     "update_values"}
TailOps ==
    {"print_train_step", "tb_train_iter_stats", "save_checkpoint", "synchronize",
     "inference", "tb_train_figures", "tb_train_audios"}

\* the order the contract gives, for this configuration
ContractOrder ==
    <<"format_data", "zero_grad", "forward", "criterion", "backward",
      "clip_grad_norm_", "optimizer_step">>
    \o (IF config.noam_schedule THEN <<"scheduler_step">> ELSE <<>>)
    \o (IF num_gpus > 1 THEN <<"reduce_tensor", "reduce_tensor", "reduce_tensor">>
        ELSE <<>>)
    \o <<"update_values">>

\* C1: in every step of train() the contract's operations run in the
\* contract's order, each once (one reduction per loss term when
\* multi-process, the scheduler step only when configured); a finished step
\* ran them all; logging, checkpoint and diagnostics come only after the
\* running-average update; the optimizer step never precedes the clipping and
\* the running-average update never precedes the reduction.
C1_StepOrder ==
    \A r \in Ranks :
        TrainStepLog(r) =>
            /\ IsPrefix(Only(ops[r], CoreOps), ContractOrder)
            /\ TrainStepDone(r) => Only(ops[r], CoreOps) = ContractOrder
            /\ \A i \in DOMAIN ops[r] :
                    ops[r][i].op \in TailOps => Pos(ops[r], "update_values") \in 1 .. (i - 1)
            /\ Has(ops[r], "optimizer_step") => Before(ops[r], "clip_grad_norm_", "optimizer_step")
            /\ (Has(ops[r], "update_values") /\ num_gpus > 1)
                    => Before(ops[r], "reduce_tensor", "update_values")

\* a multi-process step with the scheduler configured ran to its end on the
\* primary rank, diagnostics included
C1_Witness ==
    /\ num_gpus > 1 /\ config.noam_schedule
    /\ TrainStepDone(0) /\ Has(ops[0], "tb_train_audios")
    /\ Count(ops[0], "reduce_tensor") = 3

\* C2: every step of train() clips the gradients exactly once, after the
\* backward pass and before the parameter update, with mixed precision on or
\* off; with mixed precision on, the gradients are unscaled after the backward
\* pass and before the clipping, and the scaler is updated after the update.
C2_ClipOnce ==
    \A r \in Ranks :
        TrainStepLog(r) =>
            /\ Count(ops[r], "clip_grad_norm_") = 1
            /\ Before(ops[r], "backward", "clip_grad_norm_")
            /\ Before(ops[r], "clip_grad_norm_", "optimizer_step")
            /\ Count(ops[r], "optimizer_step") = 1
            /\ config.mixed_precision =>
                /\ Count(ops[r], "unscale_") = 1
                /\ Before(ops[r], "backward", "unscale_")
                /\ Before(ops[r], "unscale_", "clip_grad_norm_")
                /\ Count(ops[r], "scaler_update") = 1
                /\ Before(ops[r], "optimizer_step", "scaler_update")

\* a step under mixed precision has run
C2_Witness ==
    \E r \in Ranks :
        /\ config.mixed_precision /\ TrainStepLog(r)
        /\ Has(ops[r], "unscale_") /\ Has(ops[r], "scaler_update")

\* batches train() has taken since main() set the step counter, from the
\* position of rank r in the epoch loop
BatchesTaken(r) ==
    n_train * epoch[r]
    + (CASE pc[r] = "train" -> num_iter[r]
         [] pc[r] \in {"train_reduce", "train_log"} -> num_iter[r] + 1
         [] pc[r] \in {"evaluate", "eval_reduce", "eval_log", "save_best"} -> n_train
         [] OTHER -> 0)

InEpochLoop(r) ==
    pc[r] \in {"ddi", "epoch", "train", "train_reduce", "train_log", "evaluate",
               "eval_reduce", "eval_log", "save_best", "done"}

C3_Counts ==
    \A r \in Ranks : InEpochLoop(r) => global_step[r] = RestoreStep + BatchesTaken(r)

C3_Moves ==
    \A r \in Ranks :
        /\ global_step'[r] >= global_step[r]
        /\ pc[r] = "main" => global_step'[r] \in {global_step[r], RestoreStep}
        /\ pc[r] = "train" =>
                \/ global_step'[r] = global_step[r]
                \/ global_step'[r] = global_step[r] + 1 /\ num_iter[r] < n_train
        /\ pc[r] \notin {"main", "train"} => global_step'[r] = global_step[r]

\* C3: the global step never decreases; main() starts it at the restored step
\* (0 without a restore); train() adds exactly 1 per batch, so it returns its
\* start value plus the number of batches of the epoch; data_depended_init,
\* evaluate and best-model selection leave it unchanged.
C3_GlobalStep == []C3_Counts /\ [][C3_Moves]_vars

\* a restored run has finished all its epochs of MaxBatches batches
C3_Witness ==
    \E r \in Ranks :
        /\ pc[r] = "done" /\ RestoreStep > 0 /\ n_train = MaxBatches
        /\ global_step[r] = RestoreStep + MaxEpochs * MaxBatches

\* the loss the running average of the step logged in ops[r] was given
StepLoss(r) == ops[r][Pos(ops[r], "update_values")].val

DiagnosticNames == {"synchronize", "inference", "tb_train_figures", "tb_train_audios"}

\* the step logged in ops[r] is at the checkpoint cadence on the primary rank
AtCadence(r) == r = 0 /\ global_step[r] % config.save_step = 0

\* C4 as stated: at every step of train() whose global step is a multiple of
\* the save interval, rank 0 persists a checkpoint carrying that step, the
\* epoch and that step's loss and then emits the diagnostics; at other steps
\* (and on other ranks) no checkpoint and no diagnostics.
C4_AsStated ==
    \A r \in Ranks :
        TrainStepDone(r) =>
            IF AtCadence(r)
            THEN /\ \E i \in DOMAIN ops[r] :
                        ops[r][i] = Ev("save_checkpoint", global_step[r], epoch[r], StepLoss(r))
                 /\ Before(ops[r], "save_checkpoint", "inference")
                 /\ Before(ops[r], "inference", "tb_train_figures")
                 /\ Before(ops[r], "tb_train_figures", "tb_train_audios")
            ELSE \A i \in DOMAIN ops[r] :
                    ops[r][i].op \notin DiagnosticNames \cup {"save_checkpoint"}

\* C4: at every step of train() whose global step is a multiple of the save
\* interval, rank 0 persists a checkpoint exactly when config.checkpoint is
\* set, once, carrying that step, the epoch and that step's loss, and then,
\* with or without a checkpoint, runs the diagnostic inference and (unless the
\* inference raises) emits figures and audio; at other steps (and on other
\* ranks) no checkpoint and no diagnostics.
C4_Cadence ==
    \A r \in Ranks :
        (TrainStepLog(r) /\ Has(ops[r], "update_values")) =>
            IF AtCadence(r)
            THEN /\ Count(ops[r], "save_checkpoint") = Bit(config.checkpoint)
                 /\ config.checkpoint =>
                        /\ \E i \in DOMAIN ops[r] :
                            ops[r][i] = Ev("save_checkpoint", global_step[r], epoch[r], StepLoss(r))
                        /\ Before(ops[r], "save_checkpoint", "inference")
                 /\ Count(ops[r], "inference") = 1
                 /\ ~Has(ops[r], "raise") =>
                        /\ Before(ops[r], "inference", "tb_train_figures")
                        /\ Before(ops[r], "tb_train_figures", "tb_train_audios")
            ELSE \A i \in DOMAIN ops[r] :
                    ops[r][i].op \notin DiagnosticNames \cup {"save_checkpoint"}

\* rank 0 of a multi-process run wrote the checkpoint of a step of the second
\* epoch and emitted its diagnostics
C4_Witness ==
    /\ num_gpus > 1 /\ TrainStepDone(0) /\ AtCadence(0) /\ epoch[0] = 1
    /\ Has(ops[0], "save_checkpoint") /\ Has(ops[0], "tb_train_audios")

\* what reaches the disk or the metrics / visualization collector
WriteNames ==
    {"save_checkpoint", "save_best_model", "save_wav", "tb_train_iter_stats",
     "tb_train_figures", "tb_train_audios", "tb_train_epoch_stats",
     "tb_model_weights", "tb_eval_audios", "tb_eval_stats", "tb_eval_figures",
     "tb_test_audios", "tb_test_figures"}

\* C5 as stated: in a multi-process run no rank other than 0 ever writes a
\* checkpoint (periodic or best-model), emits to the collector or writes a
\* test-sentence waveform, in train(), evaluate() or main().
C5_AsStated ==
    \A r \in Ranks :
        (num_gpus > 1 /\ r # 0) => \A i \in DOMAIN ops[r] : ops[r][i].op \notin WriteNames

\* C6: in a step of train() the diagnostic inference is always preceded by
\* one accelerator synchronisation, which follows the checkpoint write when
\* one is made; every step at the checkpoint cadence on rank 0 synchronises
\* and then starts the inference.
C6_SyncBeforeInference ==
    \A r \in Ranks :
        TrainStepLog(r) =>
            /\ Has(ops[r], "inference") =>
                    /\ Count(ops[r], "synchronize") = 1
                    /\ Before(ops[r], "synchronize", "inference")
            /\ Has(ops[r], "save_checkpoint") => Before(ops[r], "save_checkpoint", "synchronize")
            /\ (AtCadence(r) /\ Has(ops[r], "update_values")) =>
                    Before(ops[r], "synchronize", "inference")

\* a checkpoint was written, the accelerator synchronised, the inference run
C6_Witness ==
    \E r \in Ranks :
        /\ TrainStepLog(r) /\ Has(ops[r], "save_checkpoint")
        /\ Has(ops[r], "synchronize") /\ Has(ops[r], "inference")

\* aggregations rank r has got past
Passed(r) ==
    IF pc[r] \in {"train_reduce", "eval_reduce"} THEN dist[r].entered - 1
    ELSE dist[r].entered

\* the step counter of rank r, which main() starts at the restored step
Counter(r) == IF pc[r] = "main" THEN RestoreStep ELSE global_step[r]

\* C7: in a multi-process run no rank is past an aggregation that some rank
\* has not reached yet: not past the aggregation of train step k while some
\* rank's step counter is below k; the step counters of two ranks never
\* differ by more than 1.
C7_Lockstep ==
    num_gpus > 1 =>
        \A p, q \in Ranks :
            /\ Passed(p) <= dist[q].entered
            /\ pc[p] # "train_reduce" => Counter(q) >= Counter(p)
            /\ Counter(q) >= Counter(p) - 1

\* rank 1 waits in the aggregation of a step that rank 0 has not started
C7_Witness ==
    /\ num_gpus > 1
    /\ pc[1] = "train_reduce" /\ pc[0] = "train"
    /\ global_step[1] = global_step[0] + 1 /\ global_step[0] > RestoreStep

\* aggregations every rank of a run without failure goes through
TotalReductions ==
    IF num_gpus > 1
    THEN config.epochs * (n_train + (IF config.run_eval THEN n_eval ELSE 0))
    ELSE 0

Terminated(r) == pc[r] \in {"except", "interrupt", "exited"}

\* rank p waits in an aggregation that rank q has not entered
BlockedOn(p, q) ==
    pc[p] \in {"train_reduce", "eval_reduce"} /\ dist[q].entered < dist[p].entered

C8_NoCompletion ==
    \A p, q \in Ranks :
        (p # q /\ Terminated(q) /\ dist[q].entered < TotalReductions) =>
            /\ pc[p] # "done"
            /\ Passed(p) <= dist[q].entered

C8_StaysBlocked ==
    \A p, q \in Ranks :
        /\ Terminated(q) => Terminated(q)' /\ dist'[q] = dist[q]
        /\ (BlockedOn(p, q) /\ dist'[q].entered = dist[q].entered) =>
                /\ pc'[p] = pc[p] /\ dist'[p] = dist[p] /\ global_step'[p] = global_step[p]
                /\ BlockedOn(p, q)'

\* C8: a rank that waits in a loss aggregation stays in it for as long as some
\* rank has not entered it (no timeout, cancellation or retry); a rank that
\* terminated through the top-level handler never enters one again, so once a
\* rank has terminated short of an aggregation no other rank gets past that
\* aggregation and none finishes its epochs.
C8_Deadlock == []C8_NoCompletion /\ [][C8_StaysBlocked]_vars

\* rank 0 left through the exception handler; rank 1 waits in an aggregation
\* that rank 0 never entered
C8_Witness ==
    /\ num_gpus > 1
    /\ pc[0] = "exited" /\ exit_code[0] = 1
    /\ BlockedOn(1, 0)

\* C9: with num_gpus = 1 the process group is not initialised, the model is
\* not wrapped, neither loader has a distributed sampler and no step of
\* train() or evaluate() enters a loss aggregation.
C9_SingleProcess ==
    num_gpus = 1 =>
        \A r \in Ranks :
            /\ ~dist[r].init /\ dist[r].entered = 0
            /\ ~model[r].ddp
            /\ loaders[r].train # "DistributedSampler"
            /\ loaders[r].eval # "DistributedSampler"
            /\ pc[r] \notin {"train_reduce", "eval_reduce"}
            /\ \A i \in DOMAIN ops[r] :
                    ops[r][i].op \notin {"init_distributed", "DDP_th", "reduce_tensor"}

\* a single-process run with train and eval batches has finished
C9_Witness ==
    /\ num_gpus = 1 /\ pc[0] = "done"
    /\ n_train > 0 /\ n_eval > 0 /\ loaders[0].eval = "plain"

InEvaluate(r) == pc[r] \in {"evaluate", "eval_reduce", "eval_log"}

TrainingNames ==
    {"zero_grad", "backward", "unscale_", "clip_grad_norm_", "optimizer_step",
     "scaler_update", "scheduler_step", "save_checkpoint", "save_best_model"}

C10_Frame ==
    \A r \in Ranks :
        InEvaluate(r) =>
            /\ optimizer'[r] = optimizer[r]
            /\ scheduler'[r] = scheduler[r]
            /\ model'[r].params = model[r].params
            /\ global_step'[r] = global_step[r]
            /\ \A i \in DOMAIN ops'[r] : ops'[r][i].op \notin TrainingNames

\* C10: no step taken inside evaluate() touches the optimizer (its update
\* count and learning rate), the scheduler, the model parameters or the
\* global step, zeroes or computes gradients, or writes a checkpoint.
C10_EvaluateFrame == [][C10_Frame]_vars

\* evaluate() has returned on a rank that trained before: batches were
\* evaluated and the diagnostics emitted
C10_Witness ==
    \E r \in Ranks :
        /\ pc[r] = "save_best" /\ optimizer[r].steps > 0
        /\ Has(ops[r], "tb_eval_figures")

\* ops[r] is the log of the end of an evaluate() that ran the test sentences
TestSentenceLog(r) == Has(ops[r], "synthesis")

\* event name of ops[r] carrying the value v
HasVal(r, name, v) == \E i \in DOMAIN ops[r] : ops[r][i].op = name /\ ops[r][i].val = v
CountVal(r, name, v) ==
    Cardinality({i \in DOMAIN ops[r] : ops[r][i].op = name /\ ops[r][i].val = v})

\* the sentences whose try block ended in the except clause
FailedSentences(r) == {idx \in TestSentences : HasVal(r, "synthesis_error", idx)}

\* bit idx of the mask m
BitOf(m, idx) == (m \div (2 ^ idx)) % 2

\* what tb_test_audios / tb_test_figures were handed
ForwardedAudios(r) == ops[r][Pos(ops[r], "tb_test_audios")].val
ForwardedPredictions(r) ==
    ops[r][Pos(ops[r], "tb_test_figures")].val % (2 ^ Cardinality(TestSentences))
ForwardedAlignments(r) ==
    ops[r][Pos(ops[r], "tb_test_figures")].val \div (2 ^ Cardinality(TestSentences))

\* C11: when evaluate() synthesises the test sentences, every sentence is
\* attempted once, whatever happened to the others; no failure leaves
\* evaluate(): the audios and figures are forwarded to the collector once,
\* after the last sentence, and evaluate() returns its running averages; the
\* waveform, audio and figures of every sentence that did not fail are saved
\* and forwarded.
C11_SentenceIsolation ==
    \A r \in Ranks :
        TestSentenceLog(r) =>
            /\ \A idx \in TestSentences : CountVal(r, "synthesis", idx) = 1
            /\ ~Has(ops[r], "raise") /\ pc[r] # "except"
            /\ Count(ops[r], "tb_test_audios") = 1
            /\ Count(ops[r], "tb_test_figures") = 1
            /\ \A i \in DOMAIN ops[r] :
                    ops[r][i].op \in {"synthesis", "save_wav", "synthesis_error"}
                        => i < Pos(ops[r], "tb_test_audios")
            /\ Before(ops[r], "tb_test_audios", "tb_test_figures")
            /\ avg_loss[r].eval = avg_values(keep_avg[r])
            /\ \A idx \in TestSentences \ FailedSentences(r) :
                    /\ HasVal(r, "save_wav", idx)
                    /\ BitOf(ForwardedAudios(r), idx) = 1
                    /\ BitOf(ForwardedPredictions(r), idx) = 1
                    /\ BitOf(ForwardedAlignments(r), idx) = 1

\* the first sentence failed in synthesis, the second was synthesised, saved
\* and forwarded, and evaluate() returned
C11_Witness ==
    /\ pc[0] = "save_best" /\ TestSentenceLog(0)
    /\ FailedSentences(0) = {0}
    /\ HasVal(0, "save_wav", 1) /\ ~HasVal(0, "save_wav", 0)
    /\ ForwardedAudios(0) = 2

\* ops[r] is the log of a main() whose full load of the checkpoint raised
FullLoadFailed(r) == HasVal(r, "full_load", 0)

\* C12: when the full load of optimizer and model raises, main() loads the
\* compatible parameters instead, takes the step of the checkpoint as its
\* step counter and goes on to data_depended_init and training: nothing is
\* raised, the handler is not entered and the experiment folder is kept.
C12_RestoreFallback ==
    \A r \in Ranks :
        FullLoadFailed(r) =>
            /\ Before(ops[r], "full_load", "set_init_dict")
            /\ Before(ops[r], "set_init_dict", "partial_load")
            /\ Before(ops[r], "partial_load", "restore_step")
            /\ Count(ops[r], "partial_load") = 1
            /\ ~Has(ops[r], "raise") /\ ~Has(ops[r], "remove_experiment_folder")
            /\ pc[r] = "ddi" /\ exit_code[r] = -1
            /\ global_step[r] = disk.step

\* a run restored from a checkpoint of step MaxRestoreStep whose full load
\* raised stands before data_depended_init
C12_Witness ==
    \E r \in Ranks :
        /\ FullLoadFailed(r) /\ disk.step = MaxRestoreStep
        /\ pc[r] = "ddi" /\ global_step[r] = MaxRestoreStep

Cleanups(r) == Count(ops[r], "remove_experiment_folder")

C13_States ==
    \A r \in Ranks :
        /\ exit_code[r] # -1 <=> pc[r] \in {"exited", "done"}
        /\ pc[r] = "done" => exit_code[r] = 0
        /\ Cleanups(r) = Bit(pc[r] = "exited")
        /\ pc[r] = "exited" =>
                /\ exit_code[r] \in {0, 1}
                /\ exit_code[r] = 1 <=> Has(ops[r], "print_exc")
                /\ exit_code[r] = 1 => Before(ops[r], "remove_experiment_folder", "print_exc")

C13_Moves ==
    \A r \in Ranks :
        /\ (pc[r] = "interrupt" /\ pc'[r] # pc[r]) =>
                pc'[r] = "exited" /\ exit_code'[r] = 0 /\ Cleanups(r)' = 1
        /\ (pc[r] = "except" /\ pc'[r] # pc[r]) =>
                pc'[r] = "exited" /\ exit_code'[r] = 1 /\ Cleanups(r)' = 1
        /\ pc[r] \in {"exited", "done"} =>
                pc'[r] = pc[r] /\ exit_code'[r] = exit_code[r] /\ ops'[r] = ops[r]
        /\ pc'[r] = "exited" => pc[r] \in {"interrupt", "except", "exited"}

\* C13: a process exits only from the end of main(), with code 0 and without
\* cleanup, or from a top-level handler, which removes the experiment folder
\* once and then exits: with code 0 after an interrupt, with the trace printed
\* and code 1 after any other exception.  An exception raised anywhere in
\* main(), a training or evaluation step included, goes nowhere but to the
\* handler, and the handler always reaches its exit.
C13_Cleanup ==
    /\ []C13_States
    /\ [][C13_Moves]_vars
    /\ \A r \in RankIds :
            (r \in Ranks /\ pc[r] \in {"interrupt", "except"})
                ~> (r \in Ranks /\ pc[r] = "exited")

\* in one run a rank was interrupted in a training step and left with code 0
\* and another raised and left with code 1, each after one cleanup
C13_Witness ==
    /\ num_gpus > 1
    /\ pc[0] = "exited" /\ exit_code[0] = 1 /\ Cleanups(0) = 1
    /\ pc[1] = "exited" /\ exit_code[1] = 0 /\ Cleanups(1) = 1
    /\ global_step[1] > RestoreStep

MinLoss(a, b) == IF Less(b, a) THEN b ELSE a

C14_Moves ==
    \A r \in Ranks :
        /\ pc[r] = "main" => best_loss'[r] \in {best_loss[r], InitialBestLoss}
        /\ (pc[r] = "save_best" /\ pc'[r] = "epoch") =>
                /\ best_loss'[r] = MinLoss(best_loss[r], TargetLoss(avg_loss[r]))
                /\ ~Less(best_loss[r], best_loss'[r])
                /\ Less(TargetLoss(avg_loss[r]), best_loss[r])
                        => best_loss'[r] = TargetLoss(avg_loss[r])
        /\ (pc[r] # "main" /\ ~(pc[r] = "save_best" /\ pc'[r] = "epoch"))
                => best_loss'[r] = best_loss[r]

\* C14: main() starts the best-loss tracker at its baseline; the selection at
\* the end of an epoch replaces it by the smaller of itself and the epoch's
\* target loss (the target loss itself when that is strictly smaller), so it
\* never increases; nothing else changes it.  By induction it is the minimum
\* of the baseline and of the target losses so far.
C14_BestLoss == [][C14_Moves]_vars

\* without a baseline, the second epoch's loss beat the first's and is the
\* best loss
C14_Witness ==
    \E r \in Ranks :
        /\ InitialBestLoss = Inf /\ pc[r] = "epoch" /\ epoch[r] = 2
        /\ Has(ops[r], "save_best_model")
        /\ best_loss[r] = Rat(LossScale, 1)

\* the phase of main() that rank r is in
Phase(r) ==
    CASE pc[r] = "main" -> "setup"
      [] pc[r] = "ddi" -> "data_depended_init"
      [] pc[r] = "epoch" -> "loop"
      [] pc[r] \in {"train", "train_reduce", "train_log"} -> "train"
      [] pc[r] \in {"evaluate", "eval_reduce", "eval_log"} -> "evaluate"
      [] pc[r] = "save_best" -> "select"
      [] pc[r] = "done" -> "done"
      [] OTHER -> "failed"

PhaseOrder ==
    {<<"setup", "data_depended_init">>, <<"data_depended_init", "loop">>,
     <<"loop", "train">>, <<"train", "evaluate">>, <<"evaluate", "select">>,
     <<"select", "loop">>, <<"loop", "done">>}

C15_States ==
    \A r \in Ranks :
        /\ Has(ops[r], "set_ddi") =>
                /\ CountVal(r, "set_ddi", 1) = 1
                /\ Phase(r) \in {"loop", "failed"} /\ epoch[r] = 0
                /\ optimizer[r].steps = 0 /\ global_step[r] = RestoreStep
        /\ optimizer[r].steps > 0 => Phase(r) \notin {"setup", "data_depended_init"}
        /\ Phase(r) \in {"train", "evaluate", "select"} => epoch[r] \in 0 .. (config.epochs - 1)
        /\ Phase(r) = "done" => epoch[r] = config.epochs /\ exit_code[r] = 0

C15_Moves ==
    \A r \in Ranks :
        /\ Phase(r)' # Phase(r) =>
                \/ <<Phase(r), Phase(r)'>> \in PhaseOrder
                \/ Phase(r)' = "failed"
        /\ epoch'[r] = IF Phase(r) = "select" /\ Phase(r)' = "loop"
                        THEN epoch[r] + 1 ELSE epoch[r]
        /\ (Phase(r) = "data_depended_init" /\ Phase(r)' = "loop") =>
                CountVal(r, "set_ddi", 1)' = 1

AllDone == \A r \in Ranks : pc[r] = "done"
SomeFailed == \E r \in Ranks : pc[r] \in {"except", "interrupt", "exited"}

\* C15: main() passes through setup, data_depended_init (once, before any
\* parameter update) and then, for each epoch from 0 to config.epochs - 1,
\* train, evaluate and best-model selection in that order, the epoch index
\* moving by 1 after the selection only; it ends after config.epochs epochs
\* with exit code 0, and when no process fails every process reaches that end.
C15_EpochLoop ==
    /\ []C15_States
    /\ [][C15_Moves]_vars
    /\ <>(AllDone \/ SomeFailed)

\* two processes have run all the epochs over non-empty loaders to the end
C15_Witness ==
    /\ num_gpus > 1 /\ AllDone
    /\ n_train = MaxBatches /\ n_eval = MaxBatches
    /\ \A r \in Ranks : epoch[r] = MaxEpochs

\* ops[r] is the log of data_depended_init()
DdiLog(r) == Has(ops[r], "set_ddi")

Min(a, b) == IF a <= b THEN a ELSE b

\* C16 as stated: data_depended_init() makes at most config.data_dep_init_steps
\* forward passes, and fewer only when the loader has fewer batches; it makes
\* no backward pass and no optimizer step and leaves the global step alone.
C16_AsStated ==
    \A r \in Ranks :
        DdiLog(r) =>
            /\ Count(ops[r], "forward") = Min(config.data_dep_init_steps, n_train)
            /\ ~Has(ops[r], "backward") /\ ~Has(ops[r], "optimizer_step")
            /\ optimizer[r].steps = 0 /\ model[r].params = 0
            /\ global_step[r] = RestoreStep

\* the part of C16 as stated that does not count the forward passes
C16_NoUpdate ==
    \A r \in Ranks :
        DdiLog(r) =>
            /\ Count(ops[r], "forward") <= n_train
            /\ ~Has(ops[r], "backward") /\ ~Has(ops[r], "optimizer_step")
            /\ optimizer[r].steps = 0 /\ model[r].params = 0
            /\ global_step[r] = RestoreStep

\* the values the forward passes logged in ops[r] carry: the flows whose
\* flag was on during the pass
ForwardFlags(r) == {ops[r][i].val : i \in {j \in DOMAIN ops[r] : ops[r][j].op = "forward"}}

\* C17: every warm-up forward pass of data_depended_init() runs with the flag
\* on in every flow that supports it, between the setting and the clearing
\* of the flags, for a plain and for a wrapped model alike (the lookup of the
\* flows never raises); the flag is off in every flow when the call has
\* returned, so every forward pass of a training or evaluation step runs with
\* all flags off.
C17_DdiFlag ==
    \A r \in Ranks :
        /\ model[r].ddi = {}
        /\ DdiLog(r) =>
                /\ ForwardFlags(r) \subseteq {FlagMask(SupportsDdi)}
                /\ ~Has(ops[r], "raise")
                /\ CountVal(r, "set_ddi", 1) = 1 /\ CountVal(r, "set_ddi", 0) = 1
                /\ ops[r][1] = Ev("set_ddi", 0, 0, 1)
                /\ ops[r][Len(ops[r])] = Ev("set_ddi", 0, 0, 0)
        /\ Phase(r) = "data_depended_init" => ~Has(ops[r], "forward")
        /\ (Phase(r) \in {"train", "evaluate"}) => ForwardFlags(r) \subseteq {0}

\* rank 0 of a wrapped model has returned from a warm-up with a forward pass,
\* rank 1 is in its first training step
C17_Witness ==
    /\ num_gpus > 1 /\ model[0].ddp
    /\ DdiLog(0) /\ ForwardFlags(0) = {FlagMask(SupportsDdi)} /\ pc[0] = "epoch"
    /\ TrainStepLog(1) /\ ForwardFlags(1) = {0}

\* C18: a run that has reached global step S, restored or not, has made the
\* training steps RestoreStep + 1 .. S, one update each, and its scheduler
\* (when configured) stands at step S with the learning rate set for S; a
\* checkpoint it writes carries S; a run restored from a checkpoint of step S
\* starts with the counter and the scheduler at S.  So the first training
\* step of the restored run is step S + 1 with the scheduler resumed at S,
\* as the next step of the run that wrote the checkpoint.
C18_RoundTrip ==
    \A r \in Ranks :
        pc[r] # "main" =>
            /\ global_step[r] = RestoreStep + optimizer[r].steps
            /\ scheduler[r].on = config.noam_schedule
            /\ scheduler[r].on =>
                    /\ scheduler[r].last_epoch = global_step[r]
                    /\ optimizer[r].lr = global_step[r]
            /\ \A i \in DOMAIN ops[r] :
                    /\ ops[r][i].op = "save_checkpoint" => ops[r][i].step = global_step[r]
                    /\ ops[r][i].op = "restore_step" =>
                            ops[r][i].step = global_step[r] /\ global_step[r] = disk.step
            /\ TrainStepLog(r) =>
                    \A i \in DOMAIN ops[r] :
                        ops[r][i].op = "forward" => ops[r][i].step = global_step[r]

\* a run restored from a checkpoint of step MaxRestoreStep, with the
\* scheduler configured, has made its first training step
C18_Witness ==
    \E r \in Ranks :
        /\ args.restore_path /\ disk.step = MaxRestoreStep /\ config.noam_schedule
        /\ TrainStepLog(r) /\ optimizer[r].steps = 1
        /\ global_step[r] = MaxRestoreStep + 1
        /\ Has(ops[r], "scheduler_step") /\ scheduler[r].last_epoch = MaxRestoreStep + 1

\* C19: an evaluate() that returns has synthesised the test sentences exactly
\* when it ran on rank 0 in an epoch >= config.test_delay_epochs; no sentence
\* is synthesised on another rank or in an earlier epoch; every waveform
\* saved is that of the sentence just synthesised, carries the index of the
\* sentence and the global step of the call, and is saved once.
C19_TestDelay ==
    \A r \in Ranks :
        /\ pc[r] = "save_best" =>
                (TestSentenceLog(r) <=> (r = 0 /\ epoch[r] >= config.test_delay_epochs))
        /\ TestSentenceLog(r) =>
                /\ r = 0 /\ epoch[r] >= config.test_delay_epochs
                /\ Phase(r) = "select"
        /\ Has(ops[r], "save_wav") => TestSentenceLog(r)
        /\ \A i \in DOMAIN ops[r] :
                ops[r][i].op = "save_wav" =>
                    /\ ops[r][i].step = global_step[r]
                    /\ ops[r][i].val \in TestSentences
                    /\ CountVal(r, "save_wav", ops[r][i].val) = 1
                    /\ i > 1 /\ ops[r][i - 1] = Ev("synthesis", global_step[r], 0, ops[r][i].val)

\* in the epoch of the threshold rank 0 saved the waveforms of both sentences
\* under the global step of a run that has trained
C19_Witness ==
    /\ pc[0] = "save_best" /\ epoch[0] = config.test_delay_epochs
    /\ global_step[0] > RestoreStep
    /\ \A idx \in TestSentences :
            \E i \in DOMAIN ops[0] : ops[0][i] = Ev("save_wav", global_step[0], 0, idx)

\* C20: the speaker conditioning format_data() returns is present exactly
\* when config.use_speaker_embedding is set; when present it has one entry
\* per item of the batch, in the order of the items: the precomputed
\* embedding of the item when the external embedding file is used, else the
\* id the speaker mapping gives the speaker name of the item.
C20_SpeakerConditioning ==
    \A r \in Ranks :
        pc[r] = "formatted" =>
            /\ speaker_c.present <=> config.use_speaker_embedding
            /\ speaker_c.present =>
                    /\ Len(speaker_c.value) = Len(data.speaker_names)
                    /\ \A i \in DOMAIN data.speaker_names :
                            speaker_c.value[i] =
                                IF config.use_external_speaker_embedding_file
                                THEN data.speaker_embedding.value[i]
                                ELSE speaker_mapping[data.speaker_names[i]]
            /\ ~speaker_c.present => speaker_c.value = <<>>

\* a batch of MaxBatchSize items of two speakers got the ids of its speakers
C20_Witness ==
    /\ pc[0] = "formatted"
    /\ config.use_speaker_embedding /\ ~config.use_external_speaker_embedding_file
    /\ Len(data.speaker_names) = MaxBatchSize
    /\ data.speaker_names[1] # data.speaker_names[2]
    /\ speaker_c.present /\ Len(speaker_c.value) = MaxBatchSize
    /\ speaker_c.value[1] # speaker_c.value[2]

\* the scheduler steps taken so far by rank r, counted from the step the
\* constructor reaches
SchedulerSteps(r) == scheduler[r].last_epoch - NoamLR(SchedulerLastEpoch(RestoreStep))

\* the training steps taken so far by rank r
TrainingSteps(r) == global_step[r] - RestoreStep

\* C21: the learning-rate scheduler is stepped exactly once per training
\* step, after the optimizer step, if and only if the Noam schedule is
\* configured: the steps it has taken equal the training steps taken, and
\* nothing but a training step invokes it; when the schedule is not
\* configured the scheduler is absent, is never stepped and never sets the
\* learning rate.
C21_SchedulerStep ==
    \A r \in Ranks :
        /\ pc[r] # "main" /\ ~Has(ops[r], "raise") /\ Has(ops[r], "setup_loader")
                => (scheduler[r].on <=> config.noam_schedule)
                   /\ (Has(ops[r], "NoamLR") <=> config.noam_schedule)
        /\ TrainStepLog(r) =>
                /\ Count(ops[r], "scheduler_step") = Bit(config.noam_schedule)
                /\ config.noam_schedule => Before(ops[r], "optimizer_step", "scheduler_step")
        /\ ~TrainStepLog(r) => ~Has(ops[r], "scheduler_step")
        /\ scheduler[r].on =>
                /\ config.noam_schedule
                /\ SchedulerSteps(r) = TrainingSteps(r)
                /\ optimizer[r].lr = scheduler[r].last_epoch
        /\ ~scheduler[r].on =>
                /\ scheduler[r].last_epoch = 0
                /\ optimizer[r].lr = -1
                /\ pc[r] \notin {"main", "except", "interrupt", "exited"}
                        => ~config.noam_schedule

\* a rank of a restored run with the schedule configured has finished its
\* second training step, the scheduler having stepped after each update
C21_Witness ==
    \E r \in Ranks :
        /\ config.noam_schedule /\ RestoreStep > 0
        /\ TrainStepDone(r) /\ Has(ops[r], "scheduler_step")
        /\ TrainingSteps(r) = 2 /\ SchedulerSteps(r) = 2

\* the step in which evaluate() of rank r leaves its loop and runs to its
\* return, or to the exception that ends it
EvaluateReturns(r) == pc[r] = "evaluate" /\ pc'[r] \in {"save_best", "except"}

\* the diagnostics of one call of evaluate(), each emitted exactly once
EvalDiagnosticsOnce(s) ==
    /\ Count(s, "inference") = 1 /\ Count(s, "tb_eval_audios") = 1
    /\ Count(s, "tb_eval_stats") = 1 /\ Count(s, "tb_eval_figures") = 1
    /\ Before(s, "inference", "tb_eval_audios")

C22_Emits(batches) ==
    \A r \in Ranks :
        (EvaluateReturns(r) /\ IsPrimary(r) /\ loaders[r].eval # "None"
         /\ num_iter[r] \in batches)
            => /\ num_iter[r] = n_eval
               /\ EvalDiagnosticsOnce(ops'[r])
               /\ pc'[r] = "save_best"

\* C22 as stated: whenever evaluate() is called with a validation loader, the
\* primary process emits the evaluation diagnostics after the loop has
\* finished, exactly once per call, for every loader, one that yields no
\* batch included.
C22_AsStated == [][C22_Emits(0 .. MaxBatches)]_vars

\* the part of C22 as stated that holds: the same for every loader that
\* yields at least one batch
C22_NonEmpty == [][C22_Emits(1 .. MaxBatches)]_vars

\* the primary process was given a validation loader that yields no batch,
\* and its evaluate() ended in the exception of the diagnostics
C22_Witness ==
    /\ config.run_eval /\ n_eval = 0 /\ loaders[0].eval # "None"
    /\ pc[0] = "except" /\ epoch[0] = 0
    /\ ops[0] = EvalDiagnosticOps(0, global_step[0], TRUE, 0)

\* the average loss of the epoch that the claim names as the one driving the
\* selection
DrivingLoss(r) == IF config.run_eval THEN avg_loss[r].eval ELSE avg_loss[r].train

\* the baseline the claim names
Baseline == IF RestoreStep # 0 /\ args.best_path THEN disk.model_loss ELSE Inf

\* the step in which main() of rank r reads the target loss (lines 566-568)
\* and goes on to the selection
ReadsTarget(r) == pc[r] = "save_best" /\ pc'[r] # "save_best"

C23_Moves(loaders_yield) ==
    \A r \in Ranks :
        /\ (pc[r] = "main" /\ pc'[r] = "ddi") => best_loss'[r] = Baseline
        /\ (ReadsTarget(r) /\ loaders_yield) =>
                /\ DrivingLoss(r) # Missing
                /\ pc'[r] = "epoch"
                /\ best_loss'[r] = MinLoss(best_loss[r], DrivingLoss(r))
                /\ Has(ops'[r], "save_best_model") <=> Less(DrivingLoss(r), best_loss[r])

\* C23 as stated: the loss that drives best-model selection in each epoch is
\* the evaluation average loss of that epoch when run_eval is on and the
\* training average loss of that epoch otherwise; it is defined whenever
\* main() comes to the selection, for every configuration and whatever the
\* loaders yield; the baseline is infinity unless the run was restored from a
\* non-zero step and a best-model path was given.
C23_AsStated == [][C23_Moves(TRUE)]_vars

\* the part of C23 as stated that holds: the same when the train loader, and
\* the validation loader when run_eval is on, yield at least one batch
C23_NonEmpty == [][C23_Moves(n_train >= 1 /\ (config.run_eval => n_eval >= 1))]_vars

\* a run without evaluation whose train loader yields no batch has come to
\* the selection of its first epoch and ended in the exception of the lookup
C23_Witness ==
    \E r \in Ranks :
        /\ ~config.run_eval /\ n_train = 0 /\ epoch[r] = 0
        /\ pc[r] = "except" /\ Names(ops[r]) = <<"print_epoch_end", "raise">>
        /\ avg_loss[r].train = Missing /\ best_loss[r] = Baseline

====
